---- MODULE Spec2Model ----
(***************************************************************************)
(* Model of src/src/App.tsx: the users directory view.                     *)
(*                                                                         *)
(* Strings that the view compares, trims, lower-cases or sorts (names,     *)
(* the search box, cities, companies) are sequences of UTF-16 code units.  *)
(* Error messages are only stored and shown, so they are TLA+ strings.     *)
(***************************************************************************)
EXTENDS FiniteSets, Integers, Sequences, TLC

VARIABLES
    users, loading, error,          \* useState, lines 16-18
    search, city, company,          \* useState, lines 21-23
    pc,                             \* position of the async load function
    abortedAt,                      \* controller.signal: "never" or the pc at abort()
    requests,                       \* number of fetch() calls issued
    res, data,                      \* locals of the async function
    cityOptions, companyOptions,    \* useMemo, lines 58-65
    filteredUsers,                  \* useMemo, lines 68-76
    lastEvent                       \* the handler or continuation that ran last

loaderVars == <<users, loading, error, requests>>
filterVars == <<search, city, company>>
vars == <<users, loading, error, search, city, company, pc, abortedAt,
          requests, res, data, cityOptions, companyOptions, filteredUsers,
          lastEvent>>

(***************************************************************************)
(* Bounds and input sets                                                   *)
(***************************************************************************)
MaxUsers == 2

Null == "<null>"
Undefined == "<undefined>"
\* a response: res.ok, res.status, and what res.json() will make of the body
ResponseOf(ok, status, parses, body) ==
    [ok |-> ok, status |-> status, parses |-> parses, body |-> body]
NoResponse == ResponseOf(FALSE, 0, FALSE, <<>>)

\* " " = 32, "A" = 65, "B" = 66, "a" = 97, "b" = 98
SampleUsers ==
    { [id |-> 1, name |-> <<65, 98>>,     address |-> [city |-> <<98>>],     company |-> [name |-> <<97>>]],
      [id |-> 2, name |-> <<98, 65>>,     address |-> [city |-> <<97>>],     company |-> [name |-> <<97>>]],
      [id |-> 3, name |-> <<98>>,         address |-> [city |-> <<66>>],     company |-> [name |-> <<98>>]],
      [id |-> 4, name |-> <<97, 32, 66>>, address |-> [city |-> <<97, 98>>], company |-> [name |-> <<66>>]] }

\* JSON bodies: arrays of users with distinct ids, the empty array included
Bodies ==
    UNION { { s \in [1..n -> SampleUsers] : \A i, j \in 1..n : i # j => s[i].id # s[j].id }
            : n \in 0..MaxUsers }

\* values typed into the search box: "", " ", "A", " b ", "ab", "ba ", "B a"
SearchInputs ==
    { <<>>, <<32>>, <<65>>, <<32, 98, 32>>, <<97, 98>>, <<98, 97, 32>>, <<66, 32, 97>> }

ErrorStatuses == {404, 500}

AbortError == [name |-> "AbortError", message |-> "The operation was aborted."]
NetworkErrors ==
    { [name |-> "TypeError", message |-> "Failed to fetch"],
      [name |-> "Error", message |-> Undefined] }
SyntaxError == [name |-> "SyntaxError", message |-> "Unexpected token < in JSON at position 0"]

(***************************************************************************)
(* String helpers (String.prototype.trim / toLowerCase / includes, and the *)
(* default comparison of Array.prototype.sort)                             *)
(***************************************************************************)
IsWhiteSpace(ch) == ch \in {9, 10, 11, 12, 13, 32}

RECURSIVE trimStart(_)
trimStart(s) ==
    IF s # <<>> /\ IsWhiteSpace(Head(s)) THEN trimStart(Tail(s)) ELSE s

RECURSIVE trimEnd(_)
trimEnd(s) ==
    IF s # <<>> /\ IsWhiteSpace(s[Len(s)]) THEN trimEnd(SubSeq(s, 1, Len(s) - 1)) ELSE s

trim(s) == trimEnd(trimStart(s))

toLowerCase(s) == [i \in DOMAIN s |-> IF s[i] \in 65..90 THEN s[i] + 32 ELSE s[i]]

RECURSIVE startsWithAt(_, _, _)
startsWithAt(hay, needle, pos) ==
    IF needle = <<>> THEN TRUE
    ELSE IF pos > Len(hay) THEN FALSE
    ELSE hay[pos] = Head(needle) /\ startsWithAt(hay, Tail(needle), pos + 1)

RECURSIVE includesFrom(_, _, _)
includesFrom(hay, needle, pos) ==
    IF pos + Len(needle) - 1 > Len(hay) THEN FALSE
    ELSE startsWithAt(hay, needle, pos) \/ includesFrom(hay, needle, pos + 1)

includes(hay, needle) == includesFrom(hay, needle, 1)

\* a < b by code units, a proper prefix sorting first
RECURSIVE StrLess(_, _)
StrLess(a, b) ==
    IF b = <<>> THEN FALSE
    ELSE IF a = <<>> THEN TRUE
    ELSE IF Head(a) # Head(b) THEN Head(a) < Head(b)
    ELSE StrLess(Tail(a), Tail(b))

(***************************************************************************)
(* Derived values                                                          *)
(***************************************************************************)
\* Array.from(new Set(arr)): first occurrences, in insertion order
RECURSIVE ArrayFromSet(_)
ArrayFromSet(arr) ==
    IF arr = <<>> THEN <<>>
    ELSE LET front == ArrayFromSet(SubSeq(arr, 1, Len(arr) - 1))
             last  == arr[Len(arr)]
         IN  IF \E i \in DOMAIN front : front[i] = last THEN front ELSE Append(front, last)

RECURSIVE InsertSorted(_, _)
InsertSorted(sorted, x) ==
    IF sorted = <<>> THEN <<x>>
    ELSE IF StrLess(x, Head(sorted)) THEN <<x>> \o sorted
    ELSE <<Head(sorted)>> \o InsertSorted(Tail(sorted), x)

RECURSIVE sort(_)
sort(arr) ==
    IF arr = <<>> THEN <<>> ELSE InsertSorted(sort(Tail(arr)), Head(arr))

\* Array.from(new Set(users.map((u) => u.address.city))).sort()
ComputeCityOptions(us) ==
    sort(ArrayFromSet([i \in DOMAIN us |-> us[i].address.city]))

\* the company options without the Set
ComputeCompanyOptionsNoSet(us) == sort([i \in DOMAIN us |-> us[i].company.name])

\* Array.from(new Set(users.map((u) => u.company.name))).sort()
ComputeCompanyOptions(us) ==
    sort(ArrayFromSet([i \in DOMAIN us |-> us[i].company.name]))

Matches(u, s, c, co) ==
    LET byName    == IF s # <<>> THEN includes(toLowerCase(u.name), s) ELSE TRUE
        byCity    == IF c # <<>> THEN u.address.city = c ELSE TRUE
        byCompany == IF co # <<>> THEN u.company.name = co ELSE TRUE
    IN  byName /\ byCity /\ byCompany

RECURSIVE filter(_, _, _, _)
filter(us, s, c, co) ==
    IF us = <<>> THEN <<>>
    ELSE (IF Matches(Head(us), s, c, co) THEN <<Head(us)>> ELSE <<>>)
         \o filter(Tail(us), s, c, co)

ComputeFilteredUsersNoTrim(us, srch, c, co) == filter(us, toLowerCase(srch), c, co)

ComputeFilteredUsers(us, srch, c, co) == filter(us, toLowerCase(trim(srch)), c, co)

\* a render whose filteredUsers memo does not depend on users
RenderStaleUsers ==
    /\ cityOptions' = ComputeCityOptions(users')
    /\ companyOptions' = ComputeCompanyOptions(users')
    /\ filteredUsers' = ComputeFilteredUsers(users, search', city', company')

\* one render: the three memoised values follow the new state
Render ==
    /\ cityOptions' = ComputeCityOptions(users')
    /\ companyOptions' = ComputeCompanyOptions(users')
    /\ filteredUsers' = ComputeFilteredUsers(users', search', city', company')

(***************************************************************************)
(* What the view shows                                                     *)
(***************************************************************************)
Truthy(msg) == msg # Null /\ msg # ""

ShowBusy == loading
ShowError == Truthy(error)
ShowResults == ~loading /\ ~Truthy(error) /\ Len(filteredUsers) > 0
ShowNoResultsNaive == ~loading /\ Len(filteredUsers) = 0

ShowNoResults ==
    ~loading /\ ~Truthy(error) /\ Len(users) > 0 /\ Len(filteredUsers) = 0

(***************************************************************************)
(* The load cycle                                                          *)
(***************************************************************************)
Aborted == abortedAt # "never"

Init ==
    /\ users = <<>>
    /\ loading = TRUE
    /\ error = Null
    /\ search = <<>>
    /\ city = <<>>
    /\ company = <<>>
    /\ pc = "idle"
    /\ abortedAt = "never"
    /\ requests = 0
    /\ res = NoResponse
    /\ data = <<>>
    /\ cityOptions = <<>>
    /\ companyOptions = <<>>
    /\ filteredUsers = <<>>
    /\ lastEvent = "none"

\* the effect runs once after the first commit and starts the request
Mount ==
    /\ pc = "idle"
    /\ loading' = TRUE
    /\ error' = Null
    /\ requests' = requests + 1
    /\ pc' = "fetching"
    /\ UNCHANGED <<users, search, city, company, abortedAt, res, data>>
    /\ lastEvent' = "Mount"
    /\ Render

\* catch (err) { if (err?.name !== "AbortError") setError(err?.message ?? ...) }
CatchNoGuard(err) ==
    IF err.message # Undefined THEN err.message ELSE "Failed to load users"

Catch(err) ==
    IF err.name # "AbortError"
    THEN (IF err.message # Undefined THEN err.message ELSE "Failed to load users")
    ELSE error

\* finally { if (!controller.signal.aborted) setLoading(false) }
FinallyNever == loading

Finally == IF ~Aborted THEN FALSE ELSE loading

\* an exception inside the try block: catch, then finally, then the function ends
Throw(err) ==
    /\ error' = Catch(err)
    /\ loading' = Finally
    /\ pc' = "done"
    /\ UNCHANGED <<users, search, city, company, abortedAt, requests, data>>
    /\ Render

\* `HTTP ${res.status}`
HttpMessageNoStatus(status) == "HTTP error"

HttpMessage(status) == "HTTP " \o ToString(status)

FetchResolvedOk ==
    /\ pc = "fetching"
    /\ ~Aborted
    /\ \/ \E body \in Bodies : res' = ResponseOf(TRUE, 200, TRUE, body)
       \/ res' = ResponseOf(TRUE, 200, FALSE, <<>>)
    /\ pc' = "parsing"
    /\ UNCHANGED <<users, loading, error, search, city, company, abortedAt, requests, data>>
    /\ lastEvent' = "FetchResolvedOk"
    /\ Render

FetchResolvedNotOk ==
    /\ pc = "fetching"
    /\ ~Aborted
    /\ \E status \in ErrorStatuses :
          /\ res' = ResponseOf(FALSE, status, FALSE, <<>>)
          /\ Throw([name |-> "Error", message |-> HttpMessage(status)])
    /\ lastEvent' = "FetchResolvedNotOk"

FetchRejected ==
    /\ pc = "fetching"
    /\ \E err \in (IF Aborted THEN {AbortError} ELSE NetworkErrors) : Throw(err)
    /\ UNCHANGED res
    /\ lastEvent' = "FetchRejected"

JsonResolved ==
    /\ pc = "parsing"
    /\ ~Aborted
    /\ res.parses
    /\ data' = res.body
    /\ pc' = "delay"
    /\ UNCHANGED <<users, loading, error, search, city, company, abortedAt, requests, res>>
    /\ lastEvent' = "JsonResolved"
    /\ Render

JsonRejected ==
    /\ pc = "parsing"
    /\ Aborted \/ ~res.parses
    /\ Throw(IF Aborted THEN AbortError ELSE SyntaxError)
    /\ UNCHANGED res
    /\ lastEvent' = "JsonRejected"

\* the 3000 ms timer is not tied to the signal: it fires whether or not
\* abort() was called, and the function goes on to setUsers(data)
TimerFired ==
    /\ pc = "delay"
    /\ users' = data
    /\ loading' = Finally
    /\ pc' = "done"
    /\ UNCHANGED <<error, search, city, company, abortedAt, requests, res, data>>
    /\ lastEvent' = "TimerFired"
    /\ Render

\* effect cleanup on unmount: controller.abort()
Unmount ==
    /\ pc # "idle"
    /\ ~Aborted
    /\ abortedAt' = pc
    /\ UNCHANGED <<users, loading, error, search, city, company, pc, requests, res, data>>
    /\ lastEvent' = "Unmount"
    /\ Render

(***************************************************************************)
(* Filter inputs (only a mounted view receives events)                     *)
(***************************************************************************)
Mounted == pc # "idle" /\ ~Aborted

setSearchRefetch(v) ==
    /\ Mounted
    /\ search' = v
    /\ requests' = requests + 1
    /\ UNCHANGED <<users, loading, error, city, company, pc, abortedAt, res, data>>
    /\ lastEvent' = "setSearch"
    /\ Render

setSearch(v) ==
    /\ Mounted
    /\ search' = v
    /\ UNCHANGED <<users, loading, error, city, company, pc, abortedAt, requests, res, data>>
    /\ lastEvent' = "setSearch"
    /\ Render

\* the select offers "" and the current city options
setCity(v) ==
    /\ Mounted
    /\ v = <<>> \/ \E i \in DOMAIN cityOptions : cityOptions[i] = v
    /\ city' = v
    /\ UNCHANGED <<users, loading, error, search, company, pc, abortedAt, requests, res, data>>
    /\ lastEvent' = "setCity"
    /\ Render

setCompany(v) ==
    /\ Mounted
    /\ v = <<>> \/ \E i \in DOMAIN companyOptions : companyOptions[i] = v
    /\ company' = v
    /\ UNCHANGED <<users, loading, error, search, city, pc, abortedAt, requests, res, data>>
    /\ lastEvent' = "setCompany"
    /\ Render

clearAllKeepsCompany ==
    /\ Mounted
    /\ search' = <<>>
    /\ city' = <<>>
    /\ UNCHANGED <<users, loading, error, company, pc, abortedAt, requests, res, data>>
    /\ lastEvent' = "clearAll"
    /\ Render

clearAll ==
    /\ Mounted
    /\ search' = <<>>
    /\ city' = <<>>
    /\ company' = <<>>
    /\ UNCHANGED <<users, loading, error, pc, abortedAt, requests, res, data>>
    /\ lastEvent' = "clearAll"
    /\ Render

FilterAction ==
    \/ \E v \in SearchInputs : setSearch(v)
    \/ \E v \in {<<>>} \cup {cityOptions[i] : i \in DOMAIN cityOptions} : setCity(v)
    \/ \E v \in {<<>>} \cup {companyOptions[i] : i \in DOMAIN companyOptions} : setCompany(v)
    \/ clearAll

LoaderStep ==
    \/ Mount
    \/ FetchResolvedOk
    \/ FetchResolvedNotOk
    \/ FetchRejected
    \/ JsonResolved
    \/ JsonRejected
    \/ TimerFired

Next ==
    \/ LoaderStep
    \/ Unmount
    \/ FilterAction

Spec == Init /\ [][Next]_vars

\* the request settles and the timer fires
LiveSpec == Spec /\ WF_vars(LoaderStep)

(***************************************************************************)
(* Properties                                                              *)
(***************************************************************************)
\* abort() was called before the load function had finished
CancelledEarly == abortedAt \in {"fetching", "parsing", "delay"}

\* C1: once the view is torn down before the load has completed, the user
\* collection is never set to the fetched data (the load never reaches
\* Success): it stays empty in every later state.
C1_NoSuccessAfterCancel == CancelledEarly => users = <<>>

\* C2: once the load is interrupted by cancellation before completion, the
\* error message stays null and the loading flag stays true in every state.
C2_CancelSilent == CancelledEarly => (error = Null /\ loading = TRUE)

C2_Witness == abortedAt = "parsing" /\ pc = "done" /\ lastEvent = "JsonRejected"

\* C3: a non-success status S on an uncancelled load ends the load in Failed
\* with message exactly "HTTP S", loading false, and the source and filtered
\* collections (and the fetched data) still empty.
C3_HttpFailure ==
    \A S \in ErrorStatuses :
        (pc = "done" /\ ~res.ok /\ res.status = S) =>
            /\ error = (CASE S = 404 -> "HTTP 404" [] S = 500 -> "HTTP 500")
            /\ loading = FALSE
            /\ users = <<>>
            /\ filteredUsers = <<>>
            /\ data = <<>>

C3_Witness == pc = "done" /\ res.status = 500 /\ lastEvent = "FetchResolvedNotOk"

\* the three predicates of the filter, as stated for a record u
IsSubstring(needle, hay) ==
    \E off \in 0..(Len(hay) - Len(needle)) :
        \A k \in 1..Len(needle) : hay[off + k] = needle[k]

Satisfies(u, q, c, co) ==
    /\ q = <<>> \/ IsSubstring(toLowerCase(trim(q)), toLowerCase(u.name))
    /\ c = <<>> \/ u.address.city = c
    /\ co = <<>> \/ u.company.name = co

\* fu is the subsequence of us, in us's order, of the records that satisfy
IsFilterOf(fu, us, q, c, co) ==
    LET hits == {i \in DOMAIN us : Satisfies(us[i], q, c, co)}
    IN  /\ Len(fu) = Cardinality(hits)
        /\ \A k \in DOMAIN fu :
              \E i \in hits : /\ Cardinality({j \in hits : j < i}) = k - 1
                              /\ fu[k] = us[i]

\* C4: filteredUsers is exactly the subsequence of the source collection, in
\* source order, of the records satisfying all three predicates.
C4_AndFilter == IsFilterOf(filteredUsers, users, search, city, company)

C4_Witness ==
    /\ trim(search) # search
    /\ trim(search) # <<>>
    /\ Len(filteredUsers) >= 1
    /\ Len(filteredUsers) < Len(users)

\* C5: clearAll empties the three filter fields and leaves filteredUsers equal
\* to the full source collection; invoked again right away it changes nothing.
C5_ClearAll ==
    [][clearAll =>
          /\ search' = <<>> /\ city' = <<>> /\ company' = <<>>
          /\ filteredUsers' = users'
          /\ (lastEvent = "clearAll" => UNCHANGED vars)]_vars

C5_Witness == lastEvent = "clearAll" /\ Len(users) = MaxUsers /\ filteredUsers = users

\* C6 as stated: whenever the load is Success and filteredUsers is empty, the
\* "no results" indicator is shown and the error indicator is not.
C6_Original ==
    (loading = FALSE /\ error = Null /\ Len(filteredUsers) = 0) =>
        (ShowNoResults /\ ~ShowError)

\* C6: whenever the load is Success, the source collection is not empty and
\* filteredUsers is empty, the "no results" indicator is shown and the error
\* indicator is not; the two indicators are never shown together.
C6_NoResults ==
    /\ (loading = FALSE /\ error = Null /\ Len(users) > 0 /\ Len(filteredUsers) = 0) =>
           (ShowNoResults /\ ~ShowError)
    /\ ~(ShowNoResults /\ ShowError)

C6_Witness ==
    /\ loading = FALSE /\ error = Null
    /\ Len(users) > 0 /\ Len(filteredUsers) = 0
    /\ ShowNoResults

\* C7: the filter actions leave users, loading, error and the number of
\* requests unchanged, and exactly one request is issued per view lifetime.
C7_FiltersLeaveLoader ==
    /\ [][FilterAction => UNCHANGED loaderVars]_vars
    /\ [](requests <= 1 /\ (pc # "idle" => requests = 1))

C7_Witness ==
    /\ lastEvent \in {"setSearch", "setCity", "setCompany", "clearAll"}
    /\ search # <<>> /\ city # <<>>
    /\ pc = "done" /\ requests = 1

\* C8: no step of the load modifies the filter fields, and in the state in
\* which the load becomes Success filteredUsers is the fetched collection
\* filtered by the filter state that was set while loading.
C8_FiltersRetained ==
    [][LoaderStep =>
          /\ UNCHANGED filterVars
          /\ (loading /\ ~loading' /\ error' = Null) =>
                 IsFilterOf(filteredUsers', data', search', city', company')]_vars

C8_Witness ==
    /\ lastEvent = "TimerFired" /\ loading = FALSE /\ error = Null
    /\ search # <<>>
    /\ Len(filteredUsers) >= 1
    /\ Len(filteredUsers) < Len(users)

\* opts has no duplicates, ascends, and holds exactly the values of vals
IsSortedSetOf(opts, vals) ==
    /\ \A i, j \in DOMAIN opts : i < j => StrLess(opts[i], opts[j])
    /\ {opts[i] : i \in DOMAIN opts} = vals

C10_LoadTerminates ==
    /\ <>(Aborted \/ loading = FALSE)
    /\ [](loading = FALSE =>
            /\ pc = "done"
            /\ error = Null \/ (error # Null /\ users = <<>>))
    /\ [](~(error # Null /\ users # <<>>))
    /\ [][loading = FALSE => UNCHANGED <<users, loading, error>>]_vars

C10_Witness == ~Aborted /\ loading = FALSE /\ pc = "done" /\ users # <<>>

====
